---- MODULE Spec2Model ----
(***************************************************************************)
(* Asynchronous task lifecycle of the Define Consult backend: the three    *)
(* agent routers (User Whisperer, Market Maven, Narrative Architect)       *)
(* create work records and queue Celery tasks; the Celery worker runs the  *)
(* tasks against the same database; clients poll the routers.              *)
(*                                                                         *)
(* Rows are kept in three tables (transcripts, generated_content,          *)
(* agent_activities), each a function from row ids to rows.  The UUID      *)
(* primary keys of the source are only ever compared for equality, so an   *)
(* id is any value that is unique in its table.                            *)
(***************************************************************************)
EXTENDS Integers, Sequences, FiniteSets, TLC

\* ------------------------------------------------------------------ bounds
MaxSubmits == 1     \* submit requests accepted in one behaviour
MaxRuns == 5        \* task invocations started in one behaviour
NumWorkers == 2     \* task invocations that may be in progress at once
MaxDups == 1        \* times the broker delivers a message of one task again
MaxStray == 1       \* task messages that name a row there is not
MaxUnqueued == 1    \* submits whose task the broker does not take

\* ------------------------------------------------------- program constants
max_retries == 3    \* self.retry(exc=e, countdown=60, max_retries=3)

NULL == "NULL"      \* SQL NULL / Python None

\* ------------------------------------------------------------------- users
\* The users table is maintained elsewhere; two users exist.
Users == { [id |-> 1, firebase_uid |-> "1"], [id |-> 2, firebase_uid |-> "2"] }

\* Bearer identities a request may carry: the two users and one identity
\* that has no users row and is not a decimal number.
Callers == {"1", "2", "anon"}

\* db.query(User).filter(User.firebase_uid == current_user_id).first()
UserByUid(uid) ==
    IF \E u \in Users : u.firebase_uid = uid
    THEN (CHOOSE u \in Users : u.firebase_uid = uid).id
    ELSE 0

\* int(user_id): the integer, or -1 where Python raises ValueError
IntOf(uid) ==
    CASE uid = "1" -> 1
      [] uid = "2" -> 2
      [] OTHER     -> -1

\* ------------------------------------------------------------------- state
VARIABLES
    transcripts,    \* table transcripts
    contents,       \* table generated_content
    activities,     \* table agent_activities
    queue,          \* task messages held by the broker
    running,        \* task invocations in progress on the workers
    task_seq,       \* number of task handles issued by delay()
    tasks,          \* per task handle: the call made by delay() and the
                    \* history of its runs (see Task)
    pending,        \* submit requests that queued their task, not yet answered
    resp            \* what the latest step answered to a client, if anything

vars == <<transcripts, contents, activities, queue, running, task_seq,
          tasks, pending, resp>>

tables == <<transcripts, contents, activities>>

NoResp == [op |-> "none", code |-> 0, body |-> [detail |-> "none"]]

Init ==
    /\ transcripts = <<>>
    /\ contents = <<>>
    /\ activities = <<>>
    /\ queue = {}
    /\ running = {}
    /\ task_seq = 0
    /\ tasks = <<>>
    /\ pending = {}
    /\ resp = NoResp

\* ----------------------------------------------------------------- helpers
RECURSIVE SumSeq(_)
SumSeq(s) == IF s = <<>> THEN 0 ELSE Head(s) + SumSeq(Tail(s))

\* model bounds as guards
CanSubmit == task_seq < MaxSubmits
TotalRuns == SumSeq([h \in DOMAIN tasks |-> tasks[h].runs])
CanRun == TotalRuns < MaxRuns /\ Cardinality(running) < NumWorkers

\* {**old, k: v}
DictSet(d, k, v) == (k :> v) @@ d

\* an insert that is not committed
Insert_uncommitted(table, id, row) == table

\* the table with one more row
Insert(table, id, row) == (id :> row) @@ table

\* raise HTTPException(status_code=code, detail=detail)
HTTPException(op, code, detail) ==
    [op |-> op, code |-> code, body |-> [detail |-> detail]]

\* an exception that is not an HTTPException has no status code of its own
ValueError(op) == [op |-> op, code |-> -1, body |-> [detail |-> "ValueError"]]

\* except ValueError: raise HTTPException(400, "Invalid ... ID format")
ExceptValueError(r) ==
    IF r.code = -1 THEN HTTPException(r.op, 400, "Invalid ID format") ELSE r

\* except Exception as e: raise HTTPException(500, f"Failed to ...: {str(e)}")
\* An HTTPException raised inside the try block is an Exception as well, so
\* this handler answers for it.
ExceptException(r) ==
    IF r.code \in {200, 201} THEN r
    ELSE [op |-> r.op, code |-> 500,
          body |-> [detail |-> r.body.detail, raised |-> r.code]]

\* try: ... except ValueError: ... except Exception: ...
\* The first clause that matches answers; what a clause raises leaves the
\* try statement and is not caught by the clause after it.
ExceptClauses(r) ==
    IF r.code = -1 THEN ExceptValueError(r) ELSE ExceptException(r)

\* task.delay(...): a new handle, a message with retries = 0
Message(task, args) ==
    [task |-> task, id |-> task_seq + 1, args |-> args, retries |-> 0,
     copy |-> 0]        \* 0: as sent; n: the n-th redelivery by the broker

\* what is remembered about a task handle
Task(msg) ==
    [task |-> msg.task, args |-> msg.args,
     runs |-> 0,        \* how often the task body was entered
     raised |-> 0,      \* how often the call of AIService raised
     text |-> FALSE,    \* the provider returned text in the latest run
     state |-> "PENDING",   \* what the result backend holds for the handle
     left |-> <<>>,     \* the final status each run wrote to the record
     dups |-> 0,        \* how often the broker delivered a message again
     redelivered |-> {}]    \* the retries counts of those messages

\* the provider call of one run of task h has returned or raised
Outcome(ts, h, r, outcome) ==
    [ts EXCEPT ![h].raised = IF r.ok THEN @ ELSE @ + 1,
               ![h].text = outcome # "raises"]

\* a run of task h has written its final status to the record
Left(ts, h, status) == [ts EXCEPT ![h].left = Append(@, status)]

\* a run that found no row and is handed back to the queue all the same
NotFound_retry(msg) ==
    IF msg.retries < max_retries
    THEN {[msg EXCEPT !.retries = @ + 1]}
    ELSE {}

\* The messages a run that found no row sends.  Its `raise ValueError` is
\* caught by the task's own except block, which tests `"transcript" in
\* locals()`; the name is bound (to None), so the block assigns to an
\* attribute of None and ends in an AttributeError before self.retry.
NotFound(msg) == {}

\* a failed run that raises without self.retry
retry_never(msg) == {}

\* self.retry that sends the message once more than max_retries allows
retry_once_more(msg) ==
    IF msg.retries <= max_retries
    THEN {[msg EXCEPT !.retries = @ + 1]}
    ELSE {}

\* self.retry(exc=e, countdown=60, max_retries=3): the message is sent again
\* with retries + 1 unless the retries are used up; then exc is raised and
\* the task is over.
retry(msg) ==
    IF msg.retries < max_retries
    THEN {[msg EXCEPT !.retries = @ + 1]}
    ELSE {}

Invocation(msg, pc) == [msg |-> msg, pc |-> pc, exc |-> NULL]

\* an invocation that ends at its commit without going on
Step_and_stop(inv, pc, exc) == running \ {inv}

\* the invocation moves on to its next commit; exc is the exception it has
\* caught, if any
Step(inv, pc, exc) ==
    (running \ {inv}) \cup {[inv EXCEPT !.pc = pc, !.exc = exc]}

\* The result backend (backend=CELERY_RESULT_BACKEND) keeps one state for
\* a handle and overwrites it when a run ends: SUCCESS when the task
\* returns, RETRY when self.retry sends the message again, FAILURE when an
\* exception leaves the task.  A handle nothing was stored for is PENDING;
\* a run that has started stores nothing (task_track_started is not set).
Store(ts, h, state) == [ts EXCEPT ![h].state = state]

\* what `raise self.retry(...)` stores
RetryState(msg) == IF retry(msg) = {} THEN "FAILURE" ELSE "RETRY"

\* Texts a client may submit as input payload
InputTexts == {"", "feedback"}

\* Outcomes of one call of the analysis provider: the kind of text it
\* returned (a JSON object, text json.loads rejects, JSON that is a list,
\* a number or a string), or that it raised.
ProviderOutcomes == {"json_object", "not_json", "json_not_object", "raises"}

\* ------------------------------------------------------------ User Whisperer
FileNames == {"notes.txt", "notes.exe"}

\* file.filename.endswith((".txt", ".md", ".docx"))
SupportedFile(name) == name = "notes.txt"

\* a transcript that is created in status processing
NewTranscript_processing(uid, content) ==
    [user_id |-> uid, content |-> content, status |-> "processing",
     analysis |-> NULL, error_message |-> NULL]

NewTranscript(uid, content) ==
    [user_id |-> uid, content |-> content, status |-> "uploaded",
     analysis |-> NULL, error_message |-> NULL]

\* the dict upload_transcript returns; t is the ORM object as refreshed
\* after the insert
UploadResponse(tid, task, t) ==
    [op |-> "upload_transcript", code |-> 201,
     body |-> [transcript_id |-> tid, task_id |-> task, status |-> t.status]]

\* POST /upload-transcript, up to and including process_transcript_task.delay
upload_transcript(caller, filename, content) ==
    LET uid == UserByUid(caller)
        tid == Cardinality(DOMAIN transcripts) + 1
        row == NewTranscript(uid, content)
        msg == Message("process_transcript_task",
                       [transcript_id |-> tid, user_id |-> uid])
    IN  IF ~SupportedFile(filename)
        THEN /\ resp' = ExceptException(HTTPException("upload_transcript", 400,
                            "Only .txt, .md, and .docx files are supported"))
             /\ UNCHANGED <<tables, queue, running, task_seq, tasks, pending>>
        ELSE IF uid = 0
        THEN /\ resp' = ExceptException(HTTPException("upload_transcript", 404,
                            "User not found"))
             /\ UNCHANGED <<tables, queue, running, task_seq, tasks, pending>>
        ELSE /\ CanSubmit
             /\ transcripts' = Insert(transcripts, tid, row)
             /\ queue' = queue \cup {msg}
             /\ task_seq' = task_seq + 1
             /\ tasks' = Append(tasks, Task(msg))
             /\ pending' = pending \cup {UploadResponse(tid, msg.id, row)}
             /\ resp' = NoResp
             /\ UNCHANGED <<contents, activities, running>>

\* the row a submit response is about, as it is in the database now
SubmittedRow(p) ==
    CASE p.op = "upload_transcript" -> transcripts[p.body.transcript_id]
      [] p.op = "analyze_competitor_data" -> activities[p.body.activity_id]
      [] OTHER -> contents[p.body.content_id]

\* a handler that reads the status when it returns
SubmitResponse_read_on_return(p) ==
    [p EXCEPT !.body.status = SubmittedRow(p).status]

\* The dict a submit handler returns.  Its status field was fixed before the
\* task was queued: upload_transcript reads it from the ORM object it
\* refreshed right after the insert (db.refresh), the other two handlers
\* return the literal "processing".  The row is not read again.
SubmitResponse(p) == p

\* a submit handler returns: its response reaches the client
submit_return ==
    \E p \in pending :
        /\ pending' = pending \ {p}
        /\ resp' = SubmitResponse(p)
        /\ UNCHANGED <<tables, queue, running, task_seq, tasks>>

\* -------------------------------------------- worker: process_transcript_task
\* AIService.analyze_transcript: the dict it returns, or the exception
AIService_analyze_transcript(outcome) ==
    CASE outcome = "json_object" -> [ok |-> TRUE,  value |-> "analysis"]
      [] outcome = "not_json"    -> [ok |-> TRUE,  value |-> "fallback"]
      \* json.loads returns a list, a number or a string; `field not in
      \* analysis` or `analysis[field] = ...` raises TypeError, which
      \* `except json.JSONDecodeError` does not catch.  value is str(e);
      \* one text stands for every exception text.
      [] outcome = "json_not_object"
                                 -> [ok |-> FALSE, value |-> "AI service error"]
      [] OTHER                   -> [ok |-> FALSE, value |-> "AI service error"]

\* the ids of the agent_activities rows written about transcript tid
LogIds(acts, tid) == {i \in DOMAIN acts : i[1] = "log" /\ i[2] = tid}

\* a log entry that is built and never added to the session
LogEntry_not_added(acts, tid, user_id, action, status, error, meta) == acts

\* AgentActivity(agent_type="user_whisperer", ...); db.add; db.commit
LogEntry(acts, tid, user_id, action, status, error, meta) ==
    Insert(acts, <<"log", tid, Cardinality(LogIds(acts, tid)) + 1>>,
           [user_id |-> user_id, agent_type |-> "user_whisperer",
            action |-> action, status |-> status, error_message |-> error,
            activity_metadata |-> meta])

\* lines 28-39: a worker takes the message, loads the row, sets processing
process_transcript_task_begin ==
    \E msg \in queue :
        /\ msg.task = "process_transcript_task"
        /\ CanRun
        /\ tasks' = IF msg.args.transcript_id \in DOMAIN transcripts
                    THEN [tasks EXCEPT ![msg.id].runs = @ + 1]
                    ELSE Store([tasks EXCEPT ![msg.id].runs = @ + 1],
                               msg.id, "FAILURE")
        /\ IF msg.args.transcript_id \in DOMAIN transcripts
           THEN /\ transcripts' = [transcripts EXCEPT
                        ![msg.args.transcript_id].status = "processing"]
                /\ running' = running \cup {Invocation(msg, "log_started")}
                /\ queue' = queue \ {msg}
           ELSE \* ValueError; the handler then fails on transcript = None
                /\ queue' = (queue \ {msg}) \cup NotFound(msg)
                /\ UNCHANGED <<transcripts, running>>
        /\ resp' = NoResp
        /\ UNCHANGED <<contents, activities, task_seq, pending>>

\* lines 41-62: the started entry
process_transcript_task_log_started ==
    \E inv \in running :
        /\ inv.msg.task = "process_transcript_task"
        /\ inv.pc = "log_started"
        /\ activities' = LogEntry(activities, inv.msg.args.transcript_id,
                inv.msg.args.user_id, "transcript_processing_started",
                "processing", NULL,
                [transcript_id |-> inv.msg.args.transcript_id])
        /\ running' = Step(inv, "analyze", NULL)
        /\ resp' = NoResp
        /\ UNCHANGED <<transcripts, contents, queue, task_seq, tasks, pending>>

\* lines 64-83 and 109-116: the provider call and the write of its outcome
process_transcript_task_analyze ==
    \E inv \in running, outcome \in ProviderOutcomes :
        LET r == AIService_analyze_transcript(outcome)
            tid == inv.msg.args.transcript_id
        IN  /\ inv.msg.task = "process_transcript_task"
            /\ inv.pc = "analyze"
            /\ IF r.ok
               THEN /\ transcripts' = [transcripts EXCEPT
                           ![tid].analysis = r.value,
                           ![tid].status = "completed"]
                    /\ running' = Step(inv, "log_completed", NULL)
               ELSE /\ transcripts' = [transcripts EXCEPT
                           ![tid].status = "failed",
                           ![tid].error_message = r.value]
                    /\ running' = Step(inv, "log_failed", r.value)
            /\ tasks' = Left(Outcome(tasks, inv.msg.id, r, outcome), inv.msg.id,
                             transcripts'[tid].status)
            /\ resp' = NoResp
            /\ UNCHANGED <<contents, activities, queue, task_seq, pending>>

\* lines 85-107: the completed entry, then the task returns
process_transcript_task_log_completed ==
    \E inv \in running :
        /\ inv.msg.task = "process_transcript_task"
        /\ inv.pc = "log_completed"
        /\ activities' = LogEntry(activities, inv.msg.args.transcript_id,
                inv.msg.args.user_id, "transcript_processing_completed",
                "success", NULL,
                [transcript_id |-> inv.msg.args.transcript_id])
        /\ running' = running \ {inv}
        /\ tasks' = Store(tasks, inv.msg.id, "SUCCESS")
        /\ resp' = NoResp
        /\ UNCHANGED <<transcripts, contents, queue, task_seq, pending>>

\* lines 118-134: the failed entry, then self.retry
process_transcript_task_log_failed ==
    \E inv \in running :
        /\ inv.msg.task = "process_transcript_task"
        /\ inv.pc = "log_failed"
        /\ activities' = LogEntry(activities, inv.msg.args.transcript_id,
                inv.msg.args.user_id, "transcript_processing_failed",
                "error", inv.exc,
                [transcript_id |-> inv.msg.args.transcript_id,
                 error |-> inv.exc])
        /\ running' = running \ {inv}
        /\ queue' = queue \cup retry(inv.msg)
        /\ tasks' = Store(tasks, inv.msg.id, RetryState(inv.msg))
        /\ resp' = NoResp
        /\ UNCHANGED <<transcripts, contents, task_seq, pending>>

\* -------------------------------------------------------------- Market Maven
\* len(text)
len(text) == IF text = "" THEN 0 ELSE 8

ActIds(acts) == {i \in DOMAIN acts : i[1] = "act"}

\* POST /analyze, up to and including process_competitor_analysis_task.delay
NewAnalysis(uid, competitor_data) ==
    [user_id |-> uid, agent_type |-> "market_maven",
     action |-> "competitor_analysis_started",
     status |-> "processing", error_message |-> NULL,
     activity_metadata |-> [data_length |-> len(competitor_data)]]

analyze_competitor_data(caller, competitor_data) ==
    LET uid == IntOf(caller)
        aid == <<"act", Cardinality(ActIds(activities)) + 1>>
        row == NewAnalysis(uid, competitor_data)
        msg == Message("process_competitor_analysis_task",
                       [activity_id |-> aid, competitor_data |-> competitor_data,
                        user_id |-> uid])
    IN  IF uid = -1
        THEN /\ resp' = ExceptException(ValueError("analyze_competitor_data"))
             /\ UNCHANGED <<tables, queue, running, task_seq, tasks, pending>>
        ELSE /\ CanSubmit
             /\ activities' = Insert(activities, aid, row)
             /\ queue' = queue \cup {msg}
             /\ task_seq' = task_seq + 1
             /\ tasks' = Append(tasks, Task(msg))
             /\ pending' = pending \cup
                  {[op |-> "analyze_competitor_data", code |-> 200,
                    body |-> [activity_id |-> aid, task_id |-> msg.id,
                              status |-> "processing"]]}
             /\ resp' = NoResp
             /\ UNCHANGED <<transcripts, contents, running>>

\* ----------------------------------- worker: process_competitor_analysis_task
\* AIService.analyze_competitor_data: the dict it returns, or the exception
AIService_analyze_competitor_data(outcome) ==
    CASE outcome = "json_object" -> [ok |-> TRUE,  value |-> "analysis"]
      [] outcome = "not_json"    -> [ok |-> TRUE,  value |-> "fallback"]
      \* json.loads returns a list, a number or a string; `field not in
      \* analysis` or `analysis[field] = ...` raises TypeError, which
      \* `except json.JSONDecodeError` does not catch.  value is str(e);
      \* one text stands for every exception text.
      [] outcome = "json_not_object"
                                 -> [ok |-> FALSE, value |-> "AI service error"]
      [] OTHER                   -> [ok |-> FALSE, value |-> "AI service error"]

\* lines 147-168: a worker takes the message, loads the row, sets processing
process_competitor_analysis_task_begin ==
    \E msg \in queue :
        LET aid == msg.args.activity_id
        IN  /\ msg.task = "process_competitor_analysis_task"
            /\ CanRun
            /\ tasks' = IF aid \in DOMAIN activities
                        THEN [tasks EXCEPT ![msg.id].runs = @ + 1]
                        ELSE Store([tasks EXCEPT ![msg.id].runs = @ + 1],
                                   msg.id, "FAILURE")
            /\ IF aid \in DOMAIN activities
               THEN /\ activities' = [activities EXCEPT
                           ![aid].status = "processing",
                           ![aid].activity_metadata =
                               DictSet(@, "processing_started", TRUE)]
                    /\ running' = running \cup {Invocation(msg, "analyze")}
                    /\ queue' = queue \ {msg}
               ELSE \* ValueError; the handler then fails on activity = None
                    /\ queue' = (queue \ {msg}) \cup NotFound(msg)
                    /\ UNCHANGED <<activities, running>>
            /\ resp' = NoResp
            /\ UNCHANGED <<transcripts, contents, task_seq, pending>>

\* lines 170-197 and 199-214: the provider call and the write of its outcome
process_competitor_analysis_task_analyze ==
    \E inv \in running, outcome \in ProviderOutcomes :
        LET r == AIService_analyze_competitor_data(outcome)
            aid == inv.msg.args.activity_id
        IN  /\ inv.msg.task = "process_competitor_analysis_task"
            /\ inv.pc = "analyze"
            /\ IF r.ok
               THEN /\ activities' = [activities EXCEPT
                           ![aid].status = "success",
                           ![aid].activity_metadata =
                               DictSet(DictSet(@, "analysis_results", r.value),
                                       "processing_completed", TRUE)]
                    /\ UNCHANGED queue
               ELSE /\ activities' = [activities EXCEPT
                           ![aid].status = "error",
                           ![aid].error_message = r.value,
                           ![aid].activity_metadata =
                               DictSet(DictSet(@, "error", r.value),
                                       "processing_failed", TRUE)]
                    /\ queue' = queue \cup retry(inv.msg)
            /\ running' = running \ {inv}
            /\ tasks' = Store(Left(Outcome(tasks, inv.msg.id, r, outcome),
                                    inv.msg.id, activities'[aid].status),
                               inv.msg.id,
                               IF r.ok THEN "SUCCESS" ELSE RetryState(inv.msg))
            /\ resp' = NoResp
            /\ UNCHANGED <<transcripts, contents, task_seq, pending>>

\* -------------------------------------------------------- Narrative Architect
\* POST /generate, up to and including process_content_generation_task.delay
NewContent(uid, source_material) ==
    [user_id |-> uid, source_data |-> source_material,
     content |-> "Processing...", title |-> NULL, status |-> "processing"]

NewContentActivity(uid, cid, source_material) ==
    [user_id |-> uid, agent_type |-> "narrative_architect",
     action |-> "content_generation_started",
     status |-> "processing", error_message |-> NULL,
     activity_metadata |->
         [content_id |-> cid, source_length |-> len(source_material)]]

generate_content(caller, source_material) ==
    LET uid == IntOf(caller)
        cid == Cardinality(DOMAIN contents) + 1
        aid == <<"gen", cid>>
        content_record == NewContent(uid, source_material)
        activity == NewContentActivity(uid, cid, source_material)
        msg == Message("process_content_generation_task",
                       [activity_id |-> aid, content_id |-> cid,
                        user_id |-> uid])
    IN  IF uid = -1
        THEN /\ resp' = ExceptException(ValueError("generate_content"))
             /\ UNCHANGED <<tables, queue, running, task_seq, tasks, pending>>
        ELSE /\ CanSubmit
             /\ contents' = Insert(contents, cid, content_record)
             /\ activities' = Insert(activities, aid, activity)
             /\ queue' = queue \cup {msg}
             /\ task_seq' = task_seq + 1
             /\ tasks' = Append(tasks, Task(msg))
             /\ pending' = pending \cup
                  {[op |-> "generate_content", code |-> 200,
                    body |-> [content_id |-> cid, activity_id |-> aid,
                              task_id |-> msg.id, status |-> "processing"]]}
             /\ resp' = NoResp
             /\ UNCHANGED <<transcripts, running>>

\* ------------------------------------ worker: process_content_generation_task
\* AIService.generate_content: the dict it returns, or the exception
AIService_generate_content(outcome) ==
    CASE outcome = "json_object" -> [ok |-> TRUE,  value |-> "generated"]
      [] outcome = "not_json"    -> [ok |-> TRUE,  value |-> "fallback"]
      \* json.loads returns a list, a number or a string; `field not in
      \* analysis` or `analysis[field] = ...` raises TypeError, which
      \* `except json.JSONDecodeError` does not catch.  value is str(e);
      \* one text stands for every exception text.
      [] outcome = "json_not_object"
                                 -> [ok |-> FALSE, value |-> "AI service error"]
      [] OTHER                   -> [ok |-> FALSE, value |-> "AI service error"]

\* the except block's first write, lines 308-316
ActivityError(acts, aid, e) ==
    [acts EXCEPT ![aid].status = "error",
                 ![aid].error_message = e,
                 ![aid].activity_metadata =
                     DictSet(DictSet(@, "error", e), "processing_failed", TRUE)]

\* lines 227-257: a worker takes the message, loads both rows, sets processing
process_content_generation_task_begin ==
    \E msg \in queue :
        LET aid == msg.args.activity_id
            cid == msg.args.content_id
        IN  /\ msg.task = "process_content_generation_task"
            /\ CanRun
            /\ tasks' = IF aid \in DOMAIN activities /\ cid \in DOMAIN contents
                        THEN [tasks EXCEPT ![msg.id].runs = @ + 1]
                        ELSE Store([tasks EXCEPT ![msg.id].runs = @ + 1],
                                   msg.id, "FAILURE")
            /\ queue' = IF aid \in DOMAIN activities /\ cid \in DOMAIN contents
                        THEN queue \ {msg}
                        ELSE (queue \ {msg}) \cup NotFound(msg)
            /\ IF aid \in DOMAIN activities /\ cid \in DOMAIN contents
               THEN /\ activities' = [activities EXCEPT
                           ![aid].status = "processing",
                           ![aid].activity_metadata =
                               DictSet(@, "processing_started", TRUE)]
                    /\ contents' = [contents EXCEPT ![cid].status = "processing"]
                    /\ running' = running \cup {Invocation(msg, "generate")}
               ELSE \* ValueError; the handler writes the activity if there is
                    \* one and then fails on the row that is None
                    /\ activities' = IF aid \in DOMAIN activities
                                     THEN ActivityError(activities, aid, "not found")
                                     ELSE activities
                    /\ UNCHANGED <<contents, running>>
            /\ resp' = NoResp
            /\ UNCHANGED <<transcripts, task_seq, pending>>

\* lines 259-302 and 304-316: the provider call and the write of its outcome
process_content_generation_task_generate ==
    \E inv \in running, outcome \in ProviderOutcomes :
        LET r == AIService_generate_content(outcome)
            aid == inv.msg.args.activity_id
            cid == inv.msg.args.content_id
        IN  /\ inv.msg.task = "process_content_generation_task"
            /\ inv.pc = "generate"
            /\ IF r.ok
               THEN /\ contents' = [contents EXCEPT
                           ![cid].content = r.value,
                           ![cid].title = "title",
                           ![cid].status = "draft"]
                    /\ activities' = [activities EXCEPT
                           ![aid].status = "success",
                           ![aid].activity_metadata =
                               DictSet(DictSet(@, "generation_results", r.value),
                                       "processing_completed", TRUE)]
                    /\ running' = running \ {inv}
               ELSE /\ activities' = ActivityError(activities, aid, r.value)
                    /\ running' = Step(inv, "content_failed", r.value)
                    /\ UNCHANGED contents
            /\ tasks' = IF r.ok
                         THEN Store(Left(Outcome(tasks, inv.msg.id, r, outcome),
                                         inv.msg.id, contents'[cid].status),
                                    inv.msg.id, "SUCCESS")
                         ELSE Outcome(tasks, inv.msg.id, r, outcome)
            /\ resp' = NoResp
            /\ UNCHANGED <<transcripts, queue, task_seq, pending>>

\* lines 318-323: the content row is marked failed, then self.retry
process_content_generation_task_content_failed ==
    \E inv \in running :
        /\ inv.msg.task = "process_content_generation_task"
        /\ inv.pc = "content_failed"
        /\ contents' = [contents EXCEPT
                           ![inv.msg.args.content_id].status = "failed"]
        /\ running' = running \ {inv}
        /\ queue' = queue \cup retry(inv.msg)
        /\ tasks' = Store(Left(tasks, inv.msg.id,
                               contents'[inv.msg.args.content_id].status),
                          inv.msg.id, RetryState(inv.msg))
        /\ resp' = NoResp
        /\ UNCHANGED <<transcripts, activities, task_seq, pending>>

\* ------------------------------------------------------------ status polling
\* Ids a client may put into a request path: the ids of the rows there are,
\* a well-formed id that names no row, and a string that is not a UUID.
NoSuchAct == <<"act", 0>>
BadActId == <<"bad">>
NoSuchRow == 0
BadRowId == -1
ActReqIds == DOMAIN activities \cup {NoSuchAct, BadActId}
ContentReqIds == DOMAIN contents \cup {NoSuchRow, BadRowId}
TranscriptReqIds == DOMAIN transcripts \cup {NoSuchRow, BadRowId}

\* the lookup without its user_id filter
FindOwned_by_id_alone(table, id, uid) == id \in DOMAIN table

\* .filter(AgentActivity.id == uuid.UUID(activity_id),
\*         AgentActivity.user_id == int(user_id)).first()
FindOwned(table, id, uid) == id \in DOMAIN table /\ table[id].user_id = uid

\* .filter(AgentActivity.id == uuid.UUID(activity_id)).first()
FindAny(table, id, uid) == id \in DOMAIN table

\* activity_metadata.get(key, default)
DictGet(d, k, default) == IF k \in DOMAIN d THEN d[k] ELSE default

\* the try block of get_analysis_status
AnalysisStatusBody(op, acts, found, uid, activity_id) ==
    IF activity_id = BadActId \/ uid = -1 THEN ValueError(op)
    ELSE IF ~found THEN HTTPException(op, 404, "Analysis activity not found")
    ELSE [op |-> op, code |-> 200,
          body |-> [activity_id |-> activity_id,
                    status |-> acts[activity_id].status,
                    action |-> acts[activity_id].action,
                    error_message |-> acts[activity_id].error_message,
                    metadata |-> acts[activity_id].activity_metadata]]

\* the try block of get_analysis_results
AnalysisResultsBody(op, acts, found, uid, activity_id) ==
    IF activity_id = BadActId \/ uid = -1 THEN ValueError(op)
    ELSE IF ~found THEN HTTPException(op, 404, "Analysis activity not found")
    ELSE IF acts[activity_id].status # "success"
    THEN [op |-> op, code |-> 400,
          body |-> [detail |-> "Analysis not completed",
                    status |-> acts[activity_id].status]]
    ELSE [op |-> op, code |-> 200,
          body |-> [activity_id |-> activity_id,
                    status |-> acts[activity_id].status,
                    results |-> DictGet(acts[activity_id].activity_metadata,
                                        "analysis_results", "{}")]]

\* GET /analysis/{activity_id}/status
get_analysis_status(acts, caller, activity_id) ==
    ExceptClauses((
        AnalysisStatusBody("get_analysis_status", acts,
            FindOwned(acts, activity_id, IntOf(caller)), IntOf(caller),
            activity_id)))

\* GET /analysis/{activity_id}/results
get_analysis_results(acts, caller, activity_id) ==
    ExceptClauses((
        AnalysisResultsBody("get_analysis_results", acts,
            FindOwned(acts, activity_id, IntOf(caller)), IntOf(caller),
            activity_id)))

\* GET /test/analysis/{activity_id}/status
test_get_analysis_status(acts, activity_id) ==
    ExceptClauses((
        AnalysisStatusBody("test_get_analysis_status", acts,
            FindAny(acts, activity_id, 0), 0, activity_id)))

\* GET /test/analysis/{activity_id}/results
test_get_analysis_results(acts, activity_id) ==
    ExceptClauses((
        AnalysisResultsBody("test_get_analysis_results", acts,
            FindAny(acts, activity_id, 0), 0, activity_id)))

\* the try block of get_content_status
ContentStatusBody(op, cts, found, uid, content_id) ==
    IF content_id = BadRowId \/ uid = -1 THEN ValueError(op)
    ELSE IF ~found THEN HTTPException(op, 404, "Content generation not found")
    ELSE [op |-> op, code |-> 200,
          body |-> [content_id |-> content_id,
                    status |-> cts[content_id].status]]

\* the try block of get_generated_content
GeneratedContentBody(op, cts, found, uid, content_id) ==
    IF content_id = BadRowId \/ uid = -1 THEN ValueError(op)
    ELSE IF ~found THEN HTTPException(op, 404, "Content not found")
    ELSE [op |-> op, code |-> 200,
          body |-> [content_id |-> content_id,
                    title |-> cts[content_id].title,
                    content |-> cts[content_id].content,
                    status |-> cts[content_id].status,
                    source_data |-> cts[content_id].source_data]]

\* GET /content/{content_id}/status
get_content_status(cts, caller, content_id) ==
    ExceptClauses((
        ContentStatusBody("get_content_status", cts,
            FindOwned(cts, content_id, IntOf(caller)), IntOf(caller),
            content_id)))

\* GET /content/{content_id}
get_generated_content(cts, caller, content_id) ==
    ExceptClauses((
        GeneratedContentBody("get_generated_content", cts,
            FindOwned(cts, content_id, IntOf(caller)), IntOf(caller),
            content_id)))

\* GET /test/content/{content_id}/status
test_get_content_status(cts, content_id) ==
    ExceptClauses((
        ContentStatusBody("test_get_content_status", cts,
            FindAny(cts, content_id, 0), 0, content_id)))

\* GET /test/content/{content_id}
test_get_generated_content(cts, content_id) ==
    ExceptClauses((
        GeneratedContentBody("test_get_generated_content", cts,
            FindAny(cts, content_id, 0), 0, content_id)))

\* GET /transcripts/{transcript_id}
get_transcript(trs, caller, transcript_id) ==
    LET op == "get_transcript"
        uid == UserByUid(caller)
    IN  ExceptException(
          IF uid = 0 THEN HTTPException(op, 404, "User not found")
          ELSE IF transcript_id = BadRowId THEN ValueError(op)
          ELSE IF ~FindOwned(trs, transcript_id, uid)
          THEN HTTPException(op, 404, "Transcript not found")
          ELSE [op |-> op, code |-> 200,
                body |-> [transcript_id |-> transcript_id,
                          content |-> trs[transcript_id].content,
                          status |-> trs[transcript_id].status,
                          analysis |-> trs[transcript_id].analysis,
                          error_message |-> trs[transcript_id].error_message]])

\* a client sends one of the read requests and gets the answer
Answer(r) ==
    /\ resp' = r
    /\ UNCHANGED <<tables, queue, running, task_seq, tasks, pending>>

poll_analysis ==
    \E c \in Callers, i \in ActReqIds :
        \/ Answer(get_analysis_status(activities, c, i))
        \/ Answer(get_analysis_results(activities, c, i))
        \/ Answer(test_get_analysis_status(activities, i))
        \/ Answer(test_get_analysis_results(activities, i))

poll_content ==
    \E c \in Callers, i \in ContentReqIds :
        \/ Answer(get_content_status(contents, c, i))
        \/ Answer(get_generated_content(contents, c, i))
        \/ Answer(test_get_content_status(contents, i))
        \/ Answer(test_get_generated_content(contents, i))

poll_transcript ==
    \E c \in Callers, i \in TranscriptReqIds :
        Answer(get_transcript(transcripts, c, i))

\* ------------------------------------------- the other API handlers
\* the handler as it would run if AgentActivity took its keyword arguments:
\* it goes on to the agent and writes completed, or "error" when that raises
process_transcript_to_the_end(caller, transcript_id) ==
    LET op == "process_transcript"
        uid == UserByUid(caller)
    IN  /\ uid # 0
        /\ FindOwned(transcripts, transcript_id, uid)
        /\ transcripts[transcript_id].status # "processing"
        /\ \E agent_raises \in BOOLEAN :
              IF agent_raises
              THEN /\ transcripts' = [transcripts EXCEPT
                           ![transcript_id].status = "error"]
                   /\ resp' = HTTPException(op, 500,
                                   "Failed to process transcript")
              ELSE /\ transcripts' = [transcripts EXCEPT
                           ![transcript_id].status = "completed",
                           ![transcript_id].analysis = "analysis"]
                   /\ resp' = [op |-> op, code |-> 200,
                               body |-> [transcript_id |-> transcript_id,
                                         status |-> "completed"]]
        /\ UNCHANGED <<contents, activities, queue, running, task_seq,
                       tasks, pending>>

\* POST /process-transcript/{transcript_id}.  An HTTPException leaves this
\* handler as it is (except HTTPException: raise).  After the commit of
\* status processing the handler builds AgentActivity(action_type=...,
\* input_data=...); the model has no such columns, the constructor raises
\* TypeError, and the handler answers for that with 500.
process_transcript(caller, transcript_id) ==
    LET op == "process_transcript"
        uid == UserByUid(caller)
        unexpected == HTTPException(op, 500, "An unexpected error occurred")
    IN  /\ IF uid = 0
           THEN /\ resp' = HTTPException(op, 404, "User not found")
                /\ UNCHANGED transcripts
           ELSE IF transcript_id = BadRowId
           THEN /\ resp' = unexpected
                /\ UNCHANGED transcripts
           ELSE IF ~FindOwned(transcripts, transcript_id, uid)
           THEN /\ resp' = HTTPException(op, 404, "Transcript not found")
                /\ UNCHANGED transcripts
           ELSE IF transcripts[transcript_id].status = "processing"
           THEN /\ resp' = HTTPException(op, 400,
                                "Transcript is already being processed")
                /\ UNCHANGED transcripts
           ELSE /\ transcripts' = [transcripts EXCEPT
                        ![transcript_id].status = "processing"]
                /\ resp' = unexpected
        /\ UNCHANGED <<contents, activities, queue, running, task_seq,
                       tasks, pending>>

\* bodies of PUT /content/{content_id}
ContentUpdates ==
    {[status |-> "approved"], [title |-> "edited"], [content |-> "edited"],
     [source_data |-> "edited"]}

\* an update that copies every key of the body into the row
UpdateAllowedFields_every_key(row, content_update) ==
    [k \in DOMAIN row |->
        IF k \in DOMAIN content_update THEN content_update[k] ELSE row[k]]

\* an update that takes source_data from the body as well
UpdateAllowedFields_and_source(row, content_update) ==
    [k \in DOMAIN row |->
        IF k \in {"status", "title", "source_data"} \cap DOMAIN content_update
        THEN content_update[k]
        ELSE row[k]]

\* if "status" in content_update: content.status = content_update["status"]
\* and the same for user_edits, final_version and title
UpdateAllowedFields(row, content_update) ==
    [k \in DOMAIN row |->
        IF k \in {"status", "title"} \cap DOMAIN content_update
        THEN content_update[k]
        ELSE row[k]]

\* PUT /content/{content_id}
update_content(caller, content_id, content_update) ==
    LET op == "update_content"
        uid == IntOf(caller)
        found == FindOwned(contents, content_id, uid)
        row == UpdateAllowedFields(contents[content_id], content_update)
    IN  /\ IF content_id = BadRowId \/ uid = -1
           THEN /\ resp' = ExceptClauses(ValueError(op))
                /\ UNCHANGED contents
           ELSE IF ~found
           THEN /\ resp' = ExceptClauses(
                                HTTPException(op, 404, "Content not found"))
                /\ UNCHANGED contents
           ELSE /\ contents' = [contents EXCEPT ![content_id] = row]
                /\ resp' = [op |-> op, code |-> 200,
                            body |-> [content_id |-> content_id,
                                      status |-> row.status]]
        /\ UNCHANGED <<transcripts, activities, queue, running, task_seq,
                       tasks, pending>>

\* GET /tasks/{task_id}/status: celery_app.AsyncResult(task_id).state
AsyncResult(task_id) ==
    IF task_id \in DOMAIN tasks THEN tasks[task_id].state ELSE "PENDING"

\* the handles a client may ask for: those given out and one that was not
TaskReqIds == DOMAIN tasks \cup {0}

\* the if / elif / else of get_task_status
get_task_status(task_id) ==
    LET state == AsyncResult(task_id)
        message ==
            CASE state = "PENDING" -> "Task is waiting to be processed"
              [] state = "PROGRESS" -> "Processing..."
              [] state = "SUCCESS" -> "Task completed successfully"
              [] OTHER -> "Task failed"       \* else:  # FAILURE
    IN  [op |-> "get_task_status", code |-> 200,
         body |-> [task_id |-> task_id, state |-> state, message |-> message]]

poll_task == \E i \in TaskReqIds : Answer(get_task_status(i))

\* ------------------------------------------------ submit, broker not there
\* task.delay(...) raises when the broker cannot be reached; the handler's
\* `except Exception` answers 500
OperationalError(op) ==
    [op |-> op, code |-> -2, body |-> [detail |-> "OperationalError"]]

\* the rows no task was ever sent for
Unqueued ==
    {t \in DOMAIN transcripts :
        \A h \in DOMAIN tasks :
            ~(tasks[h].task = "process_transcript_task"
              /\ tasks[h].args.transcript_id = t)}
    \cup
    {a \in DOMAIN activities :
        /\ a[1] \in {"act", "gen"}
        /\ \A h \in DOMAIN tasks :
              ~("activity_id" \in DOMAIN tasks[h].args
                /\ tasks[h].args.activity_id = a)}

\* a submit handler runs as far as task.delay(...), which raises: the rows
\* are committed (db.commit before .delay), no message is sent
submit_delay_raises ==
    /\ Cardinality(Unqueued) < MaxUnqueued
    /\ \/ \E c \in Callers, x \in InputTexts :
             /\ UserByUid(c) # 0
             /\ transcripts' = Insert(transcripts,
                                      Cardinality(DOMAIN transcripts) + 1,
                                      NewTranscript(UserByUid(c), x))
             /\ resp' = ExceptException(OperationalError("upload_transcript"))
             /\ UNCHANGED <<contents, activities>>
       \/ \E c \in Callers, x \in InputTexts :
             /\ IntOf(c) # -1
             /\ activities' = Insert(activities,
                                  <<"act", Cardinality(ActIds(activities)) + 1>>,
                                  NewAnalysis(IntOf(c), x))
             /\ resp' = ExceptException(
                             OperationalError("analyze_competitor_data"))
             /\ UNCHANGED <<transcripts, contents>>
       \/ \E c \in Callers, x \in InputTexts :
             LET cid == Cardinality(DOMAIN contents) + 1
             IN  /\ IntOf(c) # -1
                 /\ contents' = Insert(contents, cid, NewContent(IntOf(c), x))
                 /\ activities' = Insert(activities, <<"gen", cid>>,
                                      NewContentActivity(IntOf(c), cid, x))
                 /\ resp' = ExceptException(
                                 OperationalError("generate_content"))
                 /\ UNCHANGED transcripts
    /\ UNCHANGED <<queue, running, task_seq, tasks, pending>>

\* --------------------------------------------------------------------- spec
\* the submit handlers
Submits ==
    \/ \E c \in Callers, f \in FileNames, x \in InputTexts :
            upload_transcript(c, f, x)
    \/ \E c \in Callers, x \in InputTexts : analyze_competitor_data(c, x)
    \/ \E c \in Callers, x \in InputTexts : generate_content(c, x)
    \/ submit_return

\* the read handlers
Polls ==
    \/ poll_analysis
    \/ poll_content
    \/ poll_transcript

\* the steps of the Celery worker
Workers ==
    \/ process_transcript_task_begin
    \/ process_transcript_task_log_started
    \/ process_transcript_task_analyze
    \/ process_transcript_task_log_completed
    \/ process_transcript_task_log_failed
    \/ process_competitor_analysis_task_begin
    \/ process_competitor_analysis_task_analyze
    \/ process_content_generation_task_begin
    \/ process_content_generation_task_generate
    \/ process_content_generation_task_content_failed

Next == Submits \/ Polls \/ Workers

\* The broker (Redis) delivers at least once: a message that waits
\* unacknowledged, in a worker's prefetch buffer or for its countdown, is
\* handed out again, and both deliveries are executed.
duplicate_delivery ==
    \E m \in queue :
        /\ tasks[m.id].dups < MaxDups
        /\ queue' = queue \cup {[m EXCEPT !.copy = tasks[m.id].dups + 1]}
        /\ tasks' = [tasks EXCEPT ![m.id].dups = @ + 1,
                                  ![m.id].redelivered = @ \cup {m.retries}]
        /\ resp' = NoResp
        /\ UNCHANGED <<tables, running, task_seq, pending>>

NextDup == Submits \/ Workers \/ duplicate_delivery

\* Ids a task may be called with that name no row: for the content task
\* both rows may be missing, or one of the two.
StrayCalls ==
    {[task |-> "process_transcript_task",
      args |-> [transcript_id |-> NoSuchRow, user_id |-> 1]],
     [task |-> "process_competitor_analysis_task",
      args |-> [activity_id |-> NoSuchAct, competitor_data |-> "feedback",
                user_id |-> 1]]}
    \cup
    {[task |-> "process_content_generation_task",
      args |-> [activity_id |-> a, content_id |-> c, user_id |-> 1]] :
        a \in {x \in DOMAIN activities : x[1] = "gen"} \cup {NoSuchAct},
        c \in DOMAIN contents \cup {NoSuchRow}}

\* the tasks that were called for a row there is not
Strays == {h \in DOMAIN tasks : "stray" \in DOMAIN tasks[h]}

\* A task message arrives whose row is not in the database: the tasks are
\* callable with any id (@celery_app.task), the row need not be there.
stray_delivery ==
    \E call \in StrayCalls :
        LET msg == Message(call.task, call.args)
        IN  /\ Cardinality(Strays) < MaxStray
            /\ call.task = "process_content_generation_task"
                  => ~(call.args.activity_id \in DOMAIN activities
                       /\ call.args.content_id \in DOMAIN contents)
            /\ queue' = queue \cup {msg}
            /\ task_seq' = task_seq + 1
            /\ tasks' = Append(tasks, Task(msg) @@ [stray |-> TRUE])
            /\ resp' = NoResp
            /\ UNCHANGED <<tables, running, pending>>

\* the handlers that write to a record after its submit
Updates ==
    \/ \E c \in Callers, i \in TranscriptReqIds : process_transcript(c, i)
    \/ \E c \in Callers, i \in ContentReqIds, u \in ContentUpdates :
            update_content(c, i, u)

NextApi == Next \/ Updates

NextTasks == Next \/ poll_task

NextBroker == Submits \/ Workers \/ submit_delay_raises

NextStray == Submits \/ Workers \/ stray_delivery

Spec == Init /\ [][Next]_vars

\* The worker pool keeps taking messages from the broker, a retry message
\* is delivered when its countdown is over, and a task body that has been
\* entered runs on to its end: every provider call returns or raises.
WorkersFair ==
    /\ WF_vars(process_transcript_task_begin)
    /\ WF_vars(process_transcript_task_log_started)
    /\ WF_vars(process_transcript_task_analyze)
    /\ WF_vars(process_transcript_task_log_completed)
    /\ WF_vars(process_transcript_task_log_failed)
    /\ WF_vars(process_competitor_analysis_task_begin)
    /\ WF_vars(process_competitor_analysis_task_analyze)
    /\ WF_vars(process_content_generation_task_begin)
    /\ WF_vars(process_content_generation_task_generate)
    /\ WF_vars(process_content_generation_task_content_failed)

SpecFair == Init /\ [][Next]_vars /\ WorkersFair

\* the same program on a broker that may deliver a message twice
SpecDup == Init /\ [][NextDup]_vars

\* the program with a broker that may be out of reach at submit
SpecBroker == Init /\ [][NextBroker]_vars

\* the program with the status endpoint of the task handles
SpecTasks == Init /\ [][NextTasks]_vars

\* the program with every handler of the three routers
SpecApi == Init /\ [][NextApi]_vars

\* the same program with task messages for rows that are not there
SpecStray == Init /\ [][NextStray]_vars

\* ------------------------------------------------------------- work records
\* The three kinds of work record and the names their statuses have in the
\* code: a Transcript ends "completed" or "failed", a competitor-analysis
\* activity ends "success" or "error", a generated content ends "draft" or
\* "failed".
AnalysisIds == ActIds(activities)
TranscriptTerminal == {"completed", "failed"}
AnalysisTerminal == {"success", "error"}
ContentTerminal == {"draft", "failed"}

\* C1: once the status of a work record is completed or failed, no later
\* step changes it, a retry of its task by the queue included.
C1_TerminalStatusNeverChanges ==
    [][ /\ \A t \in DOMAIN transcripts :
              transcripts[t].status \in TranscriptTerminal
                  => transcripts'[t].status = transcripts[t].status
        /\ \A a \in AnalysisIds :
              activities[a].status \in AnalysisTerminal
                  => activities'[a].status = activities[a].status
        /\ \A c \in DOMAIN contents :
              contents[c].status \in ContentTerminal
                  => contents'[c].status = contents[c].status ]_vars

\* exactly one of three
ExactlyOne(a, b, c) ==
    \/ a /\ ~b /\ ~c
    \/ ~a /\ b /\ ~c
    \/ ~a /\ ~b /\ c

\* C2: in every reachable state exactly one of these holds of a work
\* record: its output is there, its error detail is there, its status is
\* not terminal.  Stated of the two kinds of record that have an error
\* column of their own.
C2_OutputErrorOrNonTerminal ==
    /\ \A t \in DOMAIN transcripts :
          ExactlyOne(transcripts[t].analysis # NULL,
                     transcripts[t].error_message # NULL,
                     transcripts[t].status \notin TranscriptTerminal)
    /\ \A a \in AnalysisIds :
          ExactlyOne("analysis_results" \in DOMAIN activities[a].activity_metadata,
                     activities[a].error_message # NULL,
                     activities[a].status \notin AnalysisTerminal)

\* C3: asked by its owner for the result of a record that is not completed,
\* each of the three result endpoints answers 400; a result is returned
\* only for a completed record.
C3_ResultOnlyWhenCompleted ==
    /\ \A a \in AnalysisIds : \A c \in Callers :
          activities[a].user_id = IntOf(c) =>
              LET r == get_analysis_results(activities, c, a)
              IN  /\ activities[a].status # "success" => r.code = 400
                  /\ r.code = 200 => activities[a].status = "success"
    /\ \A i \in DOMAIN contents : \A c \in Callers :
          contents[i].user_id = IntOf(c) =>
              LET r == get_generated_content(contents, c, i)
              IN  /\ contents[i].status # "draft" => r.code = 400
                  /\ r.code = 200 => contents[i].status = "draft"
    /\ \A t \in DOMAIN transcripts : \A c \in Callers :
          transcripts[t].user_id = UserByUid(c) =>
              LET r == get_transcript(transcripts, c, t)
              IN  /\ transcripts[t].status # "completed" => r.code = 400
                  /\ r.code = 200 => transcripts[t].status = "completed"

\* a caller's request for a well-formed id that names no row of the caller
Foreign(table, id, uid) ==
    uid > 0 /\ (id \notin DOMAIN table \/ table[id].user_id # uid)

\* C4: a request for a well-formed id that names no record, or a record of
\* another user, is answered 404 by the status and the result endpoints.
C4_NotFoundIs404 ==
    /\ \A c \in Callers : \A a \in AnalysisIds \cup {NoSuchAct} :
          Foreign(activities, a, IntOf(c)) =>
              /\ get_analysis_status(activities, c, a).code = 404
              /\ get_analysis_results(activities, c, a).code = 404
    /\ \A c \in Callers : \A i \in DOMAIN contents \cup {NoSuchRow} :
          Foreign(contents, i, IntOf(c)) =>
              /\ get_content_status(contents, c, i).code = 404
              /\ get_generated_content(contents, c, i).code = 404
    /\ \A c \in Callers : \A t \in DOMAIN transcripts \cup {NoSuchRow} :
          Foreign(transcripts, t, UserByUid(c)) =>
              get_transcript(transcripts, c, t).code = 404

\* the table as it would be if row id had never been inserted
WithoutRow(table, id) == [j \in DOMAIN table \ {id} |-> table[j]]

\* C5 as stated: whatever the caller, every status and result endpoint,
\* the /test/ ones included, answers the same for the id of another
\* user's record as it would if the record were not there.
C5_OtherOwnersRecordLooksAbsent ==
    /\ \A c \in Callers : \A a \in DOMAIN activities :
          activities[a].user_id # IntOf(c) =>
              LET absent == WithoutRow(activities, a)
              IN  /\ get_analysis_status(activities, c, a)
                        = get_analysis_status(absent, c, a)
                  /\ get_analysis_results(activities, c, a)
                        = get_analysis_results(absent, c, a)
                  /\ test_get_analysis_status(activities, a)
                        = test_get_analysis_status(absent, a)
                  /\ test_get_analysis_results(activities, a)
                        = test_get_analysis_results(absent, a)
    /\ \A c \in Callers : \A i \in DOMAIN contents :
          contents[i].user_id # IntOf(c) =>
              LET absent == WithoutRow(contents, i)
              IN  /\ get_content_status(contents, c, i)
                        = get_content_status(absent, c, i)
                  /\ get_generated_content(contents, c, i)
                        = get_generated_content(absent, c, i)
                  /\ test_get_content_status(contents, i)
                        = test_get_content_status(absent, i)
                  /\ test_get_generated_content(contents, i)
                        = test_get_generated_content(absent, i)
    /\ \A c \in Callers : \A t \in DOMAIN transcripts :
          transcripts[t].user_id # UserByUid(c) =>
              get_transcript(transcripts, c, t)
                  = get_transcript(WithoutRow(transcripts, t), c, t)

\* C5, amended: the endpoints that authenticate the caller answer the same
\* for the id of another user's record as they would if the record were
\* not there.
C5_AuthenticatedEndpointsHideOtherOwners ==
    /\ \A c \in Callers : \A a \in DOMAIN activities :
          activities[a].user_id # IntOf(c) =>
              LET absent == WithoutRow(activities, a)
              IN  /\ get_analysis_status(activities, c, a)
                        = get_analysis_status(absent, c, a)
                  /\ get_analysis_results(activities, c, a)
                        = get_analysis_results(absent, c, a)
    /\ \A c \in Callers : \A i \in DOMAIN contents :
          contents[i].user_id # IntOf(c) =>
              LET absent == WithoutRow(contents, i)
              IN  /\ get_content_status(contents, c, i)
                        = get_content_status(absent, c, i)
                  /\ get_generated_content(contents, c, i)
                        = get_generated_content(absent, c, i)
    /\ \A c \in Callers : \A t \in DOMAIN transcripts :
          transcripts[t].user_id # UserByUid(c) =>
              get_transcript(transcripts, c, t)
                  = get_transcript(WithoutRow(transcripts, t), c, t)

\* C5, the case: a user has just asked an authenticated endpoint for a
\* record that exists and belongs to the other user
C5_AskedForOtherOwnersRecord ==
    \/ \E c \in Callers : \E a \in AnalysisIds :
          /\ IntOf(c) > 0 /\ activities[a].user_id # IntOf(c)
          /\ resp \in {get_analysis_status(activities, c, a),
                       get_analysis_results(activities, c, a)}
    \/ \E c \in Callers : \E i \in DOMAIN contents :
          /\ IntOf(c) > 0 /\ contents[i].user_id # IntOf(c)
          /\ resp \in {get_content_status(contents, c, i),
                       get_generated_content(contents, c, i)}
    \/ \E c \in Callers : \E t \in DOMAIN transcripts :
          /\ UserByUid(c) > 0 /\ transcripts[t].user_id # UserByUid(c)
          /\ resp = get_transcript(transcripts, c, t)

\* C6: a submit with an empty input payload is rejected, writes no record
\* and queues no task: no record and no task there is has an empty payload.
C6_EmptyPayloadLeavesNoTrace ==
    /\ \A t \in DOMAIN transcripts : transcripts[t].content # ""
    /\ \A a \in AnalysisIds : activities[a].activity_metadata.data_length > 0
    /\ \A c \in DOMAIN contents : contents[c].source_data # ""
    /\ \A h \in DOMAIN tasks :
          tasks[h].task = "process_competitor_analysis_task"
              => tasks[h].args.competitor_data # ""

SubmitOps == {"upload_transcript", "analyze_competitor_data", "generate_content"}
NonTerminal == {"uploaded", "processing"}

\* the response just given is that of an accepted submit
Submitted == resp.op \in SubmitOps /\ resp.code \in {200, 201}

\* the record of task h
RecordOf(h) ==
    CASE tasks[h].task = "process_transcript_task"
            -> transcripts[tasks[h].args.transcript_id]
      [] tasks[h].task = "process_competitor_analysis_task"
            -> activities[tasks[h].args.activity_id]
      [] OTHER -> contents[tasks[h].args.content_id]

Over(h) ==
    /\ tasks[h].runs > 0
    /\ \A m \in queue : m.id # h
    /\ \A inv \in running : inv.msg.id # h

\* the activity rows in phase failed that are about the record of task h
FailedEntries(h) ==
    IF tasks[h].task = "process_transcript_task"
    THEN {i \in LogIds(activities, tasks[h].args.transcript_id) :
             activities[i].action = "transcript_processing_failed"}
    ELSE {i \in AnalysisIds :
             /\ activities[i].status = "error"
             /\ i = tasks[h].args.activity_id}

\* C8: when the provider raised in every run and the queue has given the
\* task up, the record is failed with an error detail and the log has one
\* failed entry for each run (transcript and competitor-analysis tasks).
C8_OneFailedEntryPerAttempt ==
    \A h \in DOMAIN tasks :
        /\ tasks[h].task # "process_content_generation_task"
        /\ Over(h)
        /\ tasks[h].raised = tasks[h].runs
        => /\ RecordOf(h).status \in {"failed", "error"}
           /\ RecordOf(h).error_message \notin {NULL, ""}
           /\ Cardinality(FailedEntries(h)) = tasks[h].runs

\* C9 as stated: the body of a task runs at most 3 times for one record.
C9_AtMostThreeRuns == \A h \in DOMAIN tasks : tasks[h].runs <= 3

\* C9, amended: the body of a task runs at most max_retries + 1 = 4 times
\* for one record, and after the fourth failed run it is not queued again.
C9_AtMostFourRuns ==
    /\ \A h \in DOMAIN tasks : tasks[h].runs <= max_retries + 1
    /\ \A m \in queue : tasks[m.id].runs <= max_retries

\* C9, the case: four runs, all failed, and the task is over
C9_GivenUpAfterFourRuns ==
    \E h \in DOMAIN tasks :
        /\ tasks[h].runs = max_retries + 1
        /\ tasks[h].raised = tasks[h].runs
        /\ Over(h)

\* C10: every run of a task on its record leaves the terminal status the
\* first run left.
C10_SecondRunLeavesSameStatus ==
    \A h \in DOMAIN tasks :
        \A i \in DOMAIN tasks[h].left : tasks[h].left[i] = tasks[h].left[1]

\* the statuses that are terminal for the record of task h
Terminal(h) ==
    CASE tasks[h].task = "process_transcript_task" -> TranscriptTerminal
      [] tasks[h].task = "process_competitor_analysis_task" -> AnalysisTerminal
      [] OTHER -> ContentTerminal

\* the record of the h-th accepted submit is there
Created(h) == h \in DOMAIN tasks

AnalysisOutput(a) ==
    DictGet(activities[a].activity_metadata, "analysis_results", NULL)
ContentOutput(c) ==
    IF contents[c].content = "Processing..." THEN NULL ELSE contents[c].content

\* C12: the output payload of a record is absent until the record is
\* completed, and once it has been written no later step writes it again,
\* a retry or a duplicate delivery of the task included.
C12_OutputWrittenOnce ==
    [][ /\ \A t \in DOMAIN transcripts :
              /\ transcripts[t].analysis # NULL
                    => transcripts'[t].analysis = transcripts[t].analysis
              /\ transcripts'[t].analysis # NULL
                    => transcripts[t].analysis # NULL
                       \/ transcripts'[t].status = "completed"
        /\ \A a \in AnalysisIds :
              /\ AnalysisOutput(a) # NULL => AnalysisOutput(a)' = AnalysisOutput(a)
              /\ AnalysisOutput(a)' # NULL
                    => AnalysisOutput(a) # NULL
                       \/ activities'[a].status = "success"
        /\ \A c \in DOMAIN contents :
              /\ ContentOutput(c) # NULL => ContentOutput(c)' = ContentOutput(c)
              /\ ContentOutput(c)' # NULL
                    => ContentOutput(c) # NULL
                       \/ contents'[c].status = "draft" ]_vars

\* the status a poll by the owner reports for the record of task h
PolledStatus(h) ==
    LET row == RecordOf(h)
        owner == CHOOSE c \in Callers : IntOf(c) = row.user_id
    IN  CASE tasks[h].task = "process_transcript_task"
                -> get_transcript(transcripts, owner,
                                  tasks[h].args.transcript_id).body.status
          [] tasks[h].task = "process_competitor_analysis_task"
                -> get_analysis_status(activities, owner,
                                       tasks[h].args.activity_id).body.status
          [] OTHER
                -> get_content_status(contents, owner,
                                      tasks[h].args.content_id).body.status

\* C13 as stated: a record whose task no worker has picked up yet is never
\* observed as processing.
C13_NotProcessingBeforePickup ==
    \A h \in DOMAIN tasks : tasks[h].runs = 0 => PolledStatus(h) # "processing"

\* the status the submit handler of task h gives a new record
InitialStatus(h) ==
    IF tasks[h].task = "process_transcript_task"
    THEN "uploaded" ELSE "processing"

\* C13, amended: until a worker has picked its task up a record has the
\* status its submit handler gave it: uploaded for a transcript, processing
\* for a competitor analysis and for a generated content.
C13_InitialStatusUntilPickup ==
    \A h \in DOMAIN tasks :
        tasks[h].runs = 0
            => /\ RecordOf(h).status = InitialStatus(h)
               /\ PolledStatus(h) = InitialStatus(h)

\* C13, the case: a poll has reported processing for a competitor analysis
\* that no worker has picked up yet
C13_PolledProcessingBeforePickup ==
    \E h \in DOMAIN tasks :
        /\ tasks[h].task = "process_competitor_analysis_task"
        /\ tasks[h].runs = 0
        /\ resp.op = "get_analysis_status"
        /\ resp.code = 200
        /\ resp.body.status = "processing"

\* a worker takes message m, which names a row there is not
TakesStray(m) ==
    /\ m.id \in Strays
    /\ tasks'[m.id].runs = tasks[m.id].runs + 1

OwnActivity(m) ==
    IF m.task = "process_content_generation_task"
    THEN {m.args.activity_id} \cap DOMAIN activities
    ELSE {}

BothFinished(h) ==
    /\ 0 \in tasks[h].redelivered
    /\ tasks[h].runs = 2
    /\ \A m \in queue : m.id = h => m.retries > 0
    /\ \A inv \in running : inv.msg.id # h

\* C15: when the two invocations of a task delivered twice have both
\* finished, whatever their interleaving and their provider outcomes, the
\* record is completed with an output and no error, or failed with an error
\* and no output.
C15_DuplicatesConverge ==
    \A h \in DOMAIN tasks :
        BothFinished(h) =>
            CASE tasks[h].task = "process_transcript_task" ->
                    LET t == RecordOf(h)
                    IN  \/ /\ t.status = "completed"
                           /\ t.analysis # NULL
                           /\ t.error_message = NULL
                        \/ /\ t.status = "failed"
                           /\ t.error_message # NULL
                           /\ t.analysis = NULL
              [] tasks[h].task = "process_competitor_analysis_task" ->
                    LET a == RecordOf(h)
                    IN  \/ /\ a.status = "success"
                           /\ AnalysisOutput(tasks[h].args.activity_id) # NULL
                           /\ a.error_message = NULL
                        \/ /\ a.status = "error"
                           /\ a.error_message # NULL
                           /\ AnalysisOutput(tasks[h].args.activity_id) = NULL
              [] OTHER -> RecordOf(h).status \in ContentTerminal

\* the Status API operations that only read
ReadOps ==
    {"get_analysis_status", "get_analysis_results",
     "test_get_analysis_status", "test_get_analysis_results",
     "get_content_status", "get_generated_content",
     "test_get_content_status", "test_get_generated_content",
     "get_transcript"}

\* the status, output and error fields of every work record
WorkFields ==
    << [t \in DOMAIN transcripts |->
           <<transcripts[t].status, transcripts[t].analysis,
             transcripts[t].error_message>>],
       [a \in AnalysisIds |->
           <<activities[a].status, AnalysisOutput(a),
             activities[a].error_message>>],
       [c \in DOMAIN contents |-> <<contents[c].status, ContentOutput(c)>>] >>

\* C16 as stated: after submit the executor is the only writer of a record;
\* a status poll, a result fetch, process_transcript and update_content
\* leave the status, the output and the error of every record unchanged.
C16_ApiLeavesRecordsUnchanged ==
    [][resp'.op \in ReadOps \cup {"process_transcript", "update_content"}
          => WorkFields' = WorkFields]_vars

\* C16, amended: a status poll and a result fetch change no row;
\* process_transcript changes nothing but the status of a transcript, which
\* it sets to processing; update_content changes nothing but the status and
\* the title of a generated content.
C16_ApiWritesStatusOnly ==
    [][ /\ resp'.op \in ReadOps => tables' = tables
        /\ resp'.op = "process_transcript" =>
              /\ contents' = contents
              /\ activities' = activities
              /\ \A t \in DOMAIN transcripts :
                    \/ transcripts'[t] = transcripts[t]
                    \/ transcripts'[t] =
                           [transcripts[t] EXCEPT !.status = "processing"]
        /\ resp'.op = "update_content" =>
              /\ transcripts' = transcripts
              /\ activities' = activities
              /\ \A c \in DOMAIN contents :
                    \E st \in {contents[c].status, "approved"},
                       ti \in {contents[c].title, "edited"} :
                        contents'[c] = [contents[c] EXCEPT !.status = st,
                                                           !.title = ti]
      ]_vars

\* C16, the case: update_content has just given a content that the
\* executor had finished the status approved
C16_UpdatedAfterHandOff ==
    /\ resp.op = "update_content"
    /\ resp.code = 200
    /\ \E c \in DOMAIN contents :
          /\ contents[c].status = "approved"
          /\ ContentOutput(c) # NULL
          /\ resp.body.content_id = c

\* the rows task h loads by id are in the database
FindsRecord(h) ==
    CASE tasks[h].task = "process_transcript_task"
            -> tasks[h].args.transcript_id \in DOMAIN transcripts
      [] tasks[h].task = "process_competitor_analysis_task"
            -> tasks[h].args.activity_id \in DOMAIN activities
      [] OTHER -> /\ tasks[h].args.activity_id \in DOMAIN activities
                  /\ tasks[h].args.content_id \in DOMAIN contents

\* C17: the record of a task is committed before submit queues the task:
\* from the moment the task has a message on the queue, and so whenever an
\* invocation loads the record by id, the record is there.
C17_RecordCommittedBeforeQueued ==
    /\ \A h \in DOMAIN tasks : FindsRecord(h)
    /\ \A m \in queue : m.id \in DOMAIN tasks
    /\ \A inv \in running : inv.msg.id \in DOMAIN tasks

\* C17, the case: an invocation queued by submit has loaded its record and
\* is at work on it
C17_InvocationFoundRecord ==
    \E inv \in running :
        /\ tasks[inv.msg.id].runs >= 1
        /\ FindsRecord(inv.msg.id)

\* C18: the activity log is append-only: a row of agent_activities, once
\* inserted, stays, and no step changes any of its fields.
C18_ActivityRowsNeverChange ==
    [][\A a \in DOMAIN activities :
          /\ a \in DOMAIN activities'
          /\ activities'[a] = activities[a]]_vars

\* the tasks of the transcript executor
TranscriptTasks ==
    {h \in DOMAIN tasks : tasks[h].task = "process_transcript_task"}

\* the bearer identity of the owner of a row
OwnerOf(row) == CHOOSE c \in Callers : UserByUid(c) = row.user_id

\* an attempt of task h has failed, k attempts were made, more remain, and
\* the next one has not started
AwaitsRetry(h, k) ==
    /\ tasks[h].runs = k
    /\ tasks[h].raised = k
    /\ k <= max_retries
    /\ \A inv \in running : inv.msg.id # h

\* what holds in every state when the provider raised in a run of the
\* transcript executor
C19_FailedThenLoggedThenRetried ==
    \A h \in TranscriptTasks :
        LET tid == tasks[h].args.transcript_id
            row == transcripts[tid]
            poll == get_transcript(transcripts, OwnerOf(row), tid)
        IN  \* the failed entry is written after failed and the error
            /\ \A inv \in running :
                  inv.msg.id = h /\ inv.pc = "log_failed" =>
                      /\ row.status = "failed"
                      /\ inv.exc # NULL
                      /\ row.error_message = inv.exc
                      /\ Cardinality(FailedEntries(h)) = inv.msg.retries
                      /\ \A m \in queue : m.id # h
            \* the message is handed back after the failed entry, and a
            \* poll before the next attempt reports failed and the error
            /\ \A k \in 1..max_retries :
                  AwaitsRetry(h, k) =>
                      /\ \E m \in queue : m.id = h /\ m.retries = k
                      /\ Cardinality(FailedEntries(h)) = k
                      /\ poll.code = 200
                      /\ poll.body.status = "failed"
                      /\ poll.body.error_message # NULL

Entries(h, acts) ==
    {i \in LogIds(activities, tasks[h].args.transcript_id) :
        activities[i].action \in acts}

Started(h) == Entries(h, {"transcript_processing_started"})
Completed(h) == Entries(h, {"transcript_processing_completed"})
Failed(h) == Entries(h, {"transcript_processing_failed"})

\* the entry about the record of task h that was written last
Newest(h) ==
    activities[<<"log", tasks[h].args.transcript_id,
                 Cardinality(LogIds(activities, tasks[h].args.transcript_id))>>]

\* the status a record has when the entry was written
PhaseStatus(entry) ==
    CASE entry.action = "transcript_processing_started" -> "processing"
      [] entry.action = "transcript_processing_completed" -> "completed"
      [] OTHER -> "failed"

\* no invocation of task h is running
Quiescent(h) == \A inv \in running : inv.msg.id # h

CompletedStatus == {"completed", "success", "draft"}

\* C21: whenever the provider returns text without raising, whatever the
\* text is, the run ends with status completed; the call does not count as
\* a failure of the run.
C21_ReturnedTextCompletes ==
    [][\A inv \in running :
          /\ inv.pc \in {"analyze", "generate"}
          /\ inv \notin running'
          /\ tasks'[inv.msg.id].text
          => /\ tasks'[inv.msg.id].raised = tasks[inv.msg.id].raised
             /\ RecordOf(inv.msg.id)'.status \in CompletedStatus]_vars

\* the place of a status in the order created, processing, terminal
Rank(status) ==
    CASE status = "uploaded" -> 0
      [] status = "processing" -> 1
      [] OTHER -> 2

\* C22: no step moves the status of a record backward in the order
\* created, processing, terminal.
C22_StatusNeverMovesBackward ==
    [][ /\ \A t \in DOMAIN transcripts :
              Rank(transcripts'[t].status) >= Rank(transcripts[t].status)
        /\ \A a \in AnalysisIds :
              Rank(activities'[a].status) >= Rank(activities[a].status)
        /\ \A c \in DOMAIN contents :
              Rank(contents'[c].status) >= Rank(contents[c].status) ]_vars

\* the task handle status endpoint has just answered
TaskStatusAnswered == resp.op = "get_task_status"

\* C24: the task handle status endpoint gives the answer "Task failed" only
\* for a task whose queue state is FAILURE, and the state it reports is one
\* of PENDING, PROGRESS, SUCCESS, FAILURE; a task that waits for a retry is
\* not reported as failed.
C24_TaskFailedOnlyForFailure ==
    TaskStatusAnswered =>
        /\ resp.body.state \in {"PENDING", "PROGRESS", "SUCCESS", "FAILURE"}
        /\ resp.body.message = "Task failed" => resp.body.state = "FAILURE"

\* C23: the id, the owner and the input payload of a record are fixed when
\* the record is created: no run of a task, failed, retried or successful,
\* and no API operation removes the row or changes its user_id, the content
\* of a transcript or the source_data of a generated content.
C23_IdOwnerInputFixed ==
    [][ /\ \A t \in DOMAIN transcripts :
              /\ t \in DOMAIN transcripts'
              /\ transcripts'[t].user_id = transcripts[t].user_id
              /\ transcripts'[t].content = transcripts[t].content
        /\ \A c \in DOMAIN contents :
              /\ c \in DOMAIN contents'
              /\ contents'[c].user_id = contents[c].user_id
              /\ contents'[c].source_data = contents[c].source_data
        /\ \A a \in DOMAIN activities :
              /\ a \in DOMAIN activities'
              /\ activities'[a].user_id = activities[a].user_id ]_vars

\* C23, the case: a task has written the text of a generated content and
\* update_content has changed its title; the input is as it was submitted
C23_WrittenByTaskAndApi ==
    \E c \in DOMAIN contents :
        /\ ContentOutput(c) # NULL
        /\ contents[c].title = "edited"
        /\ contents[c].source_data = "feedback"

\* the values the status of a transcript is documented to take
TranscriptStatus == {"uploaded", "processing", "completed", "failed"}

C26_EndpointLeavesNoneProcessing ==
    [][resp'.op = "process_transcript" =>
          \A t \in DOMAIN transcripts :
              transcripts[t].status # "processing"
                  => transcripts'[t].status # "processing"]_vars

\* the invocations of process_transcript_task that have set transcript t to
\* processing and have not written their terminal status yet
RunsInProgress(t) ==
    {inv \in running :
        /\ inv.msg.task = "process_transcript_task"
        /\ inv.msg.args.transcript_id = t
        /\ inv.pc \in {"log_started", "analyze"}}

\* C27: at most one processing run of a transcript is in progress at any
\* time: while a run is between its write of processing and its write of
\* the terminal status, no second run on the same transcript starts.
C27_OneRunInProgress ==
    \A t \in DOMAIN transcripts : Cardinality(RunsInProgress(t)) <= 1

\* C28: submit is all-or-nothing: when a submit endpoint answers with an
\* error, also because the task could not be handed to the queue, no row
\* it wrote remains in the store.
C28_FailedSubmitLeavesNothing ==
    [][resp'.op \in SubmitOps /\ resp'.code \notin {200, 201}
          => tables' = tables]_vars

\* the invocations of process_content_generation_task in progress for the
\* content row cid or for its activity row
GenerationsInProgress(cid) ==
    {inv \in running :
        /\ inv.msg.task = "process_content_generation_task"
        /\ \/ inv.msg.args.content_id = cid
           \/ inv.msg.args.activity_id = <<"gen", cid>>}

\* the statuses the activity row and the content row may have together
InStep == {<<"processing", "processing">>, <<"success", "draft">>,
           <<"error", "failed">>}

\* C29: whenever no invocation of process_content_generation_task is in
\* progress for a pair, its activity row and its GeneratedContent row agree:
\* both processing, or success with draft, or error with failed, also after
\* a run that failed because one of the two rows was missing.
C29_PairInStep ==
    \A cid \in DOMAIN contents :
        GenerationsInProgress(cid) = {}
            => <<activities[<<"gen", cid>>].status, contents[cid].status>>
                   \in InStep

====
